---- MODULE Spec2Model ----
(***************************************************************************)
(* Model of redgifs/http.py: Route construction, the blocking (HTTP) and   *)
(* the non-blocking (AsyncHttp) transports, and the download resolver.     *)
(*                                                                         *)
(* Python strings are sequences of one-character strings, so that the      *)
(* string operations of the source (concatenation, "in", str.strip,        *)
(* str.format_map, urllib.parse.quote, re.match) are computed character by *)
(* character.                                                              *)
(***************************************************************************)
EXTENDS Integers, Sequences, FiniteSets, TLC

(***************************************************************************)
(* Bounds of the model.                                                    *)
(***************************************************************************)
\* longest identifier generated for watch-page URLs
MaxIdLen == 2
\* most bytes the caller's sink holds before the model stops writing to it
MaxSink == 1

(***************************************************************************)
(* Characters and generic string helpers.                                  *)
(***************************************************************************)
Lower == {"a","b","c","d","e","f","g","h","i","j","k","l","m",
          "n","o","p","q","r","s","t","u","v","w","x","y","z"}

Upper == {"A","B","C","D","E","F","G","H","I","J","K","L","M",
          "N","O","P","Q","R","S","T","U","V","W","X","Y","Z"}

Digit == {"0","1","2","3","4","5","6","7","8","9"}

\* \w of the re module, on ASCII
WordChar == Lower \cup Upper \cup Digit \cup {"_"}

\* s[n:] of Python, n >= 0
Drop(s, n) == IF n >= Len(s) THEN <<>> ELSE SubSeq(s, n + 1, Len(s))

\* s[:n] of Python, n >= 0
Take(s, n) == IF n >= Len(s) THEN s ELSE SubSeq(s, 1, n)

\* s.startswith(p)
StartsWith(s, p) == Len(p) <= Len(s) /\ SubSeq(s, 1, Len(p)) = p

\* "sub in s" on strings
Contains(s, sub) ==
    \E i \in 0..(Len(s) - Len(sub)) : SubSeq(s, i + 1, i + Len(sub)) = sub

\* s.find(sub): the first 0-based index of sub in s, -1 when absent
Find(s, sub) ==
    IF Contains(s, sub)
    THEN CHOOSE i \in 0..(Len(s) - Len(sub)) :
            /\ SubSeq(s, i + 1, i + Len(sub)) = sub
            /\ \A j \in 0..(i - 1) : SubSeq(s, j + 1, j + Len(sub)) # sub
    ELSE -1

\* number of leading characters of s that belong to the set cs
LeadLen(s, cs) ==
    IF \A i \in 1..Len(s) : s[i] \in cs THEN Len(s)
    ELSE (CHOOSE i \in 1..Len(s) :
            s[i] \notin cs /\ \A j \in 1..(i - 1) : s[j] \in cs) - 1

\* number of trailing characters of s that belong to the set cs
TrailLen(s, cs) ==
    IF \A i \in 1..Len(s) : s[i] \in cs THEN Len(s)
    ELSE Len(s) - (CHOOSE i \in 1..Len(s) :
                     s[i] \notin cs /\ \A j \in (i + 1)..Len(s) : s[j] \in cs)

\* the set of characters of a string
CharsOf(s) == {s[i] : i \in 1..Len(s)}

(***************************************************************************)
(* urllib.parse.quote(v) with its default safe="/": letters, digits and    *)
(* "_.-~" are never quoted, "/" is safe, every other character becomes %XX.*)
(***************************************************************************)
AlwaysSafe == Lower \cup Upper \cup Digit \cup {"_", ".", "-", "~"}

\* the %XX escape of the reserved ASCII characters the model uses
PctEscape ==
    [c \in {" ", "{", "}", "%", "?", "&", "=", "#", ":"} |->
        CASE c = " " -> <<"%","2","0">>
          [] c = "{" -> <<"%","7","B">>
          [] c = "}" -> <<"%","7","D">>
          [] c = "%" -> <<"%","2","5">>
          [] c = "?" -> <<"%","3","F">>
          [] c = "&" -> <<"%","2","6">>
          [] c = "=" -> <<"%","3","D">>
          [] c = "#" -> <<"%","2","3">>
          [] c = ":" -> <<"%","3","A">>]

\* faulty variant of quote: the value is substituted without percent-encoding
quoteNone(v) == v

RECURSIVE quote(_)
quote(v) ==
    IF v = <<>> THEN <<>>
    ELSE (IF Head(v) \in AlwaysSafe \cup {"/"} THEN <<Head(v)>> ELSE PctEscape[Head(v)])
         \o quote(Tail(v))

(***************************************************************************)
(* Route.  A parameter value is [isstr, text]: isstr says whether the      *)
(* Python value is a str, text is the value itself (a str) or the text     *)
(* format() gives a non-str value (an int, a bool).                        *)
(***************************************************************************)
BASE == <<"h","t","t","p","s",":","/","/","a","p","i",".","r","e","d","g","i","f","s",".","c","o","m">>

StrVal(t) == [isstr |-> TRUE, text |-> t]

IntVal(t) == [isstr |-> FALSE, text |-> t]

\* {k: quote(v) if isinstance(v, str) else v for k, v in parameters.items()}
QuotedParams(parameters) ==
    [k \in DOMAIN parameters |->
        IF parameters[k].isstr THEN quote(parameters[k].text) ELSE parameters[k].text]

\* the field names of the replacement fields {name} of a format string
RECURSIVE FieldNames(_)
FieldNames(s) ==
    LET open == Find(s, <<"{">>)
        rest == Drop(s, open + 1)
        close == Find(rest, <<"}">>)
    IN  IF open < 0 \/ close < 0 THEN {}
        ELSE {Take(rest, close)} \cup FieldNames(Drop(rest, close + 1))

\* str.format_map(mapping) on a string whose braces all belong to {name}
\* fields: one left-to-right pass, the substituted text is not scanned again
RECURSIVE format_map(_, _)
format_map(s, mapping) ==
    LET open == Find(s, <<"{">>)
        rest == Drop(s, open + 1)
        close == Find(rest, <<"}">>)
    IN  IF open < 0 THEN s
        ELSE Take(s, open) \o mapping[Take(rest, close)]
             \o format_map(Drop(rest, close + 1), mapping)

\* Route.__init__: the url is BASE + path, formatted only when parameters
\* were given; a field without a parameter raises KeyError
Route(method, path, parameters) ==
    IF DOMAIN parameters # {} /\ ~(FieldNames(path) \subseteq DOMAIN parameters)
    THEN [method |-> method, path |-> path, url |-> <<>>, exc |-> "KeyError"]
    ELSE [method |-> method, path |-> path,
          url |-> IF DOMAIN parameters # {}
                  THEN format_map(BASE \o path, QuotedParams(parameters))
                  ELSE BASE \o path,
          exc |-> "None"]

(***************************************************************************)
(* Values of the transports.  An optional value is a record with a "set"   *)
(* field (FALSE is Python's None).                                         *)
(***************************************************************************)
\* no proxy given (proxy=None)
NoProxy == [set |-> FALSE, scheme |-> "", url |-> ""]

\* the proxy URLs a caller may pass; scheme is yarl.URL(proxy).scheme
ProxyURLs ==
    {[set |-> TRUE, scheme |-> "http", url |-> "http://proxy.local:8080"],
     [set |-> TRUE, scheme |-> "https", url |-> "https://proxy.local:8443"]}

\* no credentials (None)
NoAuth == [set |-> FALSE, username |-> "", password |-> ""]

\* ProxyAuth(username, password)
ProxyAuth(username, password) ==
    [set |-> TRUE, username |-> username, password |-> password]

\* a parsed JSON document: {"gif": {"urls": {"hd": hd}}} when hasgif, an
\* object without the "gif" key otherwise
GifDoc(hd) == [hasgif |-> TRUE, hd |-> hd]

ErrorDoc == [hasgif |-> FALSE, hd |-> <<>>]

\* what the network answers: status code, whether the body parses as JSON,
\* the parsed document, and the raw bytes (r.content)
Response(status, parsed, js, content) ==
    [status |-> status, parsed |-> parsed, js |-> js, content |-> content]

NoResponse == Response(0, FALSE, ErrorDoc, <<>>)

\* the status code request() accepts
HTTP_OK == 200

\* the timeout HTTP.request passes to requests
SyncTimeout == 60

\* no timeout argument
NoTimeout == 0

\* how an operation ended: it returned (js for request, n for download) or
\* raised exc; HTTPException(r, js) keeps the response and the parsed body
Returned(js, n) ==
    [kind |-> "returned", exc |-> "None", js |-> js, n |-> n, response |-> NoResponse]

Raised(exc) ==
    [kind |-> "raised", exc |-> exc, js |-> ErrorDoc, n |-> 0, response |-> NoResponse]

HTTPException(r, js) ==
    [kind |-> "raised", exc |-> "HTTPException", js |-> js, n |-> 0, response |-> r]

NoOutcome == [kind |-> "none", exc |-> "None", js |-> ErrorDoc, n |-> 0, response |-> NoResponse]

(***************************************************************************)
(* Construction.                                                           *)
(***************************************************************************)
\* HTTP.__init__: _proxy is the requests proxies mapping {scheme: url};
\* _proxy_auth is set only when a proxy URL was given too
HTTP_init(proxy, proxy_auth) ==
    [cls |-> "HTTP", proxy |-> proxy, proxy_auth |-> proxy_auth,
     _proxy |-> IF proxy.set THEN proxy ELSE NoProxy,
     _proxy_auth |-> IF proxy_auth.set /\ proxy.set THEN proxy_auth ELSE NoAuth]

\* AsyncHttp.__init__ (it does not call HTTP.__init__, so _proxy is never set)
AsyncHttp_init(proxy, proxy_auth) ==
    [cls |-> "AsyncHttp", proxy |-> proxy, proxy_auth |-> proxy_auth,
     _proxy |-> NoProxy,
     _proxy_auth |-> IF proxy_auth.set /\ proxy.set THEN proxy_auth ELSE NoAuth]

(***************************************************************************)
(* One network call: the arguments the session was called with, and the    *)
(* response the network gave.  proxies/auth/timeout are the keyword        *)
(* arguments of requests, proxy/proxy_auth those of aiohttp.               *)
(***************************************************************************)
Call(api, fn, method, url, proxies, auth, proxy, proxy_auth, timeout, resp) ==
    [api |-> api, fn |-> fn, method |-> method, url |-> url,
     proxies |-> proxies, auth |-> auth,
     proxy |-> proxy, proxy_auth |-> proxy_auth,
     timeout |-> timeout, resp |-> resp]

\* faulty variant of StatusGate: only server errors raise
StatusGateBelow500(r) ==
    IF ~r.parsed THEN Raised("JSONDecodeError")
    ELSE IF r.status < 500 THEN Returned(r.js, 0)
    ELSE HTTPException(r, r.js)

\* the status gate shared by both request methods: r.json() is evaluated
\* before the status is looked at
StatusGate(r) ==
    IF ~r.parsed THEN Raised("JSONDecodeError")
    ELSE IF r.status = HTTP_OK THEN Returned(r.js, 0)
    ELSE HTTPException(r, r.js)

\* HTTP.request: session.request(method, url, headers=, proxies=self._proxy,
\* auth=self._proxy_auth, timeout=60.0)
HTTP_request(self, route, r) ==
    [calls |-> << Call("requests", "request", route.method, route.url,
                       self._proxy, self._proxy_auth, NoProxy, NoAuth,
                       SyncTimeout, r) >>,
     out |-> StatusGate(r)]

\* AsyncHttp.request: session.request(method, url, headers=,
\* proxy=str(self.proxy) if self.proxy else None, proxy_auth=self._proxy_auth)
AsyncHttp_request(self, route, r) ==
    [calls |-> << Call("aiohttp", "request", route.method, route.url,
                       NoProxy, NoAuth, self.proxy, self._proxy_auth,
                       NoTimeout, r) >>,
     out |-> StatusGate(r)]

\* self.request(...), dispatched on the class of self
request(self, route, r) ==
    IF self.cls = "HTTP" THEN HTTP_request(self, route, r)
    ELSE AsyncHttp_request(self, route, r)

NoRoute == [method |-> "", path |-> <<>>, url |-> <<>>, exc |-> "None"]

\* the Route HTTP.get_gif builds and hands to self.request:
\* Route('GET', '/v2/gifs/{id}', id=id)
get_gif_route(id) == Route("GET", <<"/","v","2","/","g","i","f","s","/","{","i","d","}">>, <<"i","d">> :> StrVal(id))

\* HTTP.get_tags: self.request(Route('GET', '/v1/tags'))
get_tags(self, r) == request(self, Route("GET", <<"/","v","1","/","t","a","g","s">>, <<>>), r)

(***************************************************************************)
(* yarl.URL(url): the parts download() reads.                              *)
(***************************************************************************)
\* number of leading characters of s before the first one that is in stops
UntilLen(s, stops) ==
    IF \A i \in 1..Len(s) : s[i] \notin stops THEN Len(s)
    ELSE (CHOOSE i \in 1..Len(s) :
            s[i] \in stops /\ \A j \in 1..(i - 1) : s[j] \notin stops) - 1

\* what follows "scheme://" (the whole string when there is no scheme)
AfterScheme(url) ==
    IF Contains(url, <<":","/","/">>) THEN Drop(url, Find(url, <<":","/","/">>) + 3) ELSE url

\* yarl_url.scheme
URLScheme(url) ==
    IF Contains(url, <<":","/","/">>) THEN Take(url, Find(url, <<":","/","/">>)) ELSE <<>>

\* str(yarl_url.host): "None" for a URL without "scheme://host"
URLHost(url) ==
    IF Contains(url, <<":","/","/">>)
    THEN Take(AfterScheme(url), UntilLen(AfterScheme(url), {"/", "?", "#", ":"}))
    ELSE <<"N","o","n","e">>

\* yarl_url.path: from the first "/" after the host up to "?" or "#"
URLPath(url) ==
    LET rest == Drop(AfterScheme(url), UntilLen(AfterScheme(url), {"/", "?", "#"}))
        path == Take(rest, UntilLen(rest, {"?", "#"}))
    IN  IF path = <<>> /\ Contains(url, <<":","/","/">>) THEN <<"/">> ELSE path

(***************************************************************************)
(* re.match(REDGIFS_THUMBS_RE, s).  The pattern is defined in              *)
(* redgifs/const.py, outside http.py; the asset grammar used here is       *)
(*   https://thumbs\d+\.redgifs\.com/\w+(-\w+)?\.\w+                       *)
(* matched at the start of s (re.match does not anchor the end): a         *)
(* "thumbs<digits>" host of redgifs.com and a path name.ext, the name      *)
(* optionally followed by "-" and a variant, as in SomeAsset-mobile.mp4.   *)
(***************************************************************************)
\* \w+(-\w+)?\.\w+ at the start of s
AssetNameMatch(s) ==
    LET w1 == LeadLen(s, WordChar)
        s1 == Drop(s, w1)
        w2 == IF s1 # <<>> /\ Head(s1) = "-" THEN LeadLen(Tail(s1), WordChar) ELSE 0
        s2 == IF s1 # <<>> /\ Head(s1) = "-" THEN Drop(Tail(s1), w2) ELSE s1
    IN  /\ w1 >= 1
        /\ (s1 # <<>> /\ Head(s1) = "-") => w2 >= 1
        /\ s2 # <<>> /\ Head(s2) = "."
        /\ LeadLen(Tail(s2), WordChar) >= 1

REDGIFS_THUMBS_RE_match(s) ==
    /\ StartsWith(s, <<"h","t","t","p","s",":","/","/","t","h","u","m","b","s">>)
    /\ LET t == Drop(s, Len(<<"h","t","t","p","s",":","/","/","t","h","u","m","b","s">>))
           d == LeadLen(t, Digit)
       IN  /\ d >= 1
           /\ StartsWith(Drop(t, d), <<".","r","e","d","g","i","f","s",".","c","o","m","/">>)
           /\ AssetNameMatch(Drop(t, d + Len(<<".","r","e","d","g","i","f","s",".","c","o","m","/">>)))

(***************************************************************************)
(* The download target: the caller's open sink (an io.BufferedIOBase) or   *)
(* a filesystem path.  io is the list of operations done on the target.    *)
(***************************************************************************)
IOEvent(ev, target, mode) == [ev |-> ev, target |-> target, mode |-> mode]

\* faulty variant of dl: the caller's sink is closed after the write
dlClosingSink(self, url, fp, data, sink, file) ==
    [calls |-> << Call(IF self.cls = "HTTP" THEN "requests" ELSE "aiohttp", "get", "GET",
                       url, NoProxy, NoAuth, NoProxy, NoAuth, NoTimeout,
                       Response(HTTP_OK, FALSE, ErrorDoc, data)) >>,
     io |-> IF fp = "sink"
            THEN << IOEvent("write", "sink", ""), IOEvent("close", "sink", "") >>
            ELSE << IOEvent("open", "path", "wb"), IOEvent("write", "path", ""),
                    IOEvent("close", "path", "") >>,
     n |-> Len(data),
     sink |-> IF fp = "sink" THEN [closed |-> TRUE, data |-> sink.data \o data] ELSE sink,
     file |-> IF fp = "sink" THEN file
              ELSE [exists |-> TRUE, open |-> FALSE, data |-> data]]

\* dl(url): session.get(url, headers=self.headers), then the body is written
\* to fp: fp.write(data) on a sink; open(fp, 'wb'), write, close on a path
dl(self, url, fp, data, sink, file) ==
    [calls |-> << Call(IF self.cls = "HTTP" THEN "requests" ELSE "aiohttp", "get", "GET",
                       url, NoProxy, NoAuth, NoProxy, NoAuth, NoTimeout,
                       Response(HTTP_OK, FALSE, ErrorDoc, data)) >>,
     io |-> IF fp = "sink"
            THEN << IOEvent("write", "sink", "") >>
            ELSE << IOEvent("open", "path", "wb"), IOEvent("write", "path", ""),
                    IOEvent("close", "path", "") >>,
     n |-> Len(data),
     sink |-> IF fp = "sink" THEN [sink EXCEPT !.data = @ \o data] ELSE sink,
     file |-> IF fp = "sink" THEN file
              ELSE [exists |-> TRUE, open |-> FALSE, data |-> data]]

\* s.strip(chars): leading and trailing characters that are in chars go
strip(s, chars) ==
    LET l == LeadLen(s, CharsOf(chars))
        t == Drop(s, l)
    IN  Take(t, Len(t) - TrailLen(t, CharsOf(chars)))

\* the result of download(): the calls made, the target operations, the
\* outcome and the targets afterwards
DownloadResult(calls, io, out, sink, file) ==
    [calls |-> calls, io |-> io, out |-> out, sink |-> sink, file |-> file]

\* download finishing through dl(url), after the calls made so far
ViaDl(before, d) ==
    DownloadResult(before \o d.calls, d.io, Returned(ErrorDoc, d.n), d.sink, d.file)

\* faulty variant of download_resolve: a thumbs host that fails the asset grammar
\* falls through to the 'watch' test instead of raising
download_resolve_fallthrough(url) ==
    IF /\ Contains(URLHost(url), <<"t","h","u","m","b","s">>) /\ Contains(URLHost(url), <<"r","e","d","g","i","f","s">>)
       /\ REDGIFS_THUMBS_RE_match(url)
    THEN [str_url |-> url, branch |-> "direct", id |-> <<>>, route |-> NoRoute]
    ELSE IF Contains(URLPath(url), <<"w","a","t","c","h">>)
    THEN [str_url |-> url, branch |-> "watch",
          id |-> strip(URLPath(url), <<"/","w","a","t","c","h","/">>),
          route |-> get_gif_route(strip(URLPath(url), <<"/","w","a","t","c","h","/">>))]
    ELSE [str_url |-> url, branch |-> "unrecognized", id |-> <<>>, route |-> NoRoute]

\* The part of download() that reads only the URL: yarl.URL(url), the
\* host test, re.match, the path test, and for a 'watch' URL
\* id = path.strip('/watch/') with the Route get_gif(id) builds.
\* branch says which return/raise statement the URL leads to.
download_resolve(url) ==
    IF Contains(URLHost(url), <<"t","h","u","m","b","s">>) /\ Contains(URLHost(url), <<"r","e","d","g","i","f","s">>)
    THEN [str_url |-> url,
          branch |-> IF REDGIFS_THUMBS_RE_match(url) THEN "direct" ELSE "invalid",
          id |-> <<>>, route |-> NoRoute]
    ELSE IF Contains(URLPath(url), <<"w","a","t","c","h">>)
    THEN [str_url |-> url, branch |-> "watch",
          id |-> strip(URLPath(url), <<"/","w","a","t","c","h","/">>),
          route |-> get_gif_route(strip(URLPath(url), <<"/","w","a","t","c","h","/">>))]
    ELSE [str_url |-> url, branch |-> "unrecognized", id |-> <<>>, route |-> NoRoute]

\* the 'watch' branch after the id is known: self.get_gif(id)['gif']['urls']
\* ['hd'], then dl(hd_url).  In AsyncHttp get_gif(id) is not awaited: it
\* evaluates to a coroutine object, and subscripting it raises TypeError
\* before any request is made.
WatchBranch(self, route, fp, r, data, sink, file) ==
    IF self.cls = "AsyncHttp"
    THEN DownloadResult(<<>>, <<>>, Raised("TypeError: not subscriptable"), sink, file)
    ELSE IF request(self, route, r).out.kind = "raised"
    THEN DownloadResult(request(self, route, r).calls, <<>>,
                        request(self, route, r).out, sink, file)
    ELSE IF ~r.js.hasgif
    THEN DownloadResult(request(self, route, r).calls, <<>>, Raised("KeyError"), sink, file)
    ELSE ViaDl(request(self, route, r).calls, dl(self, r.js.hd, fp, data, sink, file))

\* HTTP.download / AsyncHttp.download on a resolved URL; r is the answer to
\* the metadata lookup and data the body of the raw fetch, when they are made
download(self, resolved, fp, r, data, sink, file) ==
    CASE resolved.branch = "direct" ->
            ViaDl(<<>>, dl(self, resolved.str_url, fp, data, sink, file))
      [] resolved.branch = "invalid" ->
            DownloadResult(<<>>, <<>>, Raised("TypeError: invalid RedGifs URL"), sink, file)
      [] resolved.branch = "watch" ->
            WatchBranch(self, resolved.route, fp, r, data, sink, file)
      [] resolved.branch = "unrecognized" ->
            DownloadResult(<<>>, <<>>, Returned(ErrorDoc, 1), sink, file)

(***************************************************************************)
(* Inputs.                                                                 *)
(***************************************************************************)
\* the proxy argument of the constructors
Proxies == {NoProxy} \cup ProxyURLs

\* the proxy_auth argument of the constructors
Auths == {NoAuth, ProxyAuth("user", "secret")}

\* bodies of raw fetches
Contents == {<<>>, <<"b1">>}

\* the asset URL the metadata lookup names at gif.urls.hd
HdURL == <<"h","t","t","p","s",":","/","/","t","h","u","m","b","s","4","4",".","r","e","d","g","i","f","s",".","c","o","m","/","S","o","m","e","A","s","s","e","t",".","m","p","4">>

Statuses == {200, 404}

\* answers to request(): any status, with a body that is not JSON, the JSON
\* of a gif, or JSON without a "gif" key
Responses ==
    {Response(st, FALSE, ErrorDoc, <<>>) : st \in Statuses}
    \cup {Response(st, TRUE, GifDoc(HdURL), <<>>) : st \in Statuses}
    \cup {Response(st, TRUE, ErrorDoc, <<>>) : st \in Statuses}

\* characters of the generated identifiers
IdChars == {"w", "x"}

\* identifiers of 1..MaxIdLen characters
Ids == UNION {[1..k -> IdChars] : k \in 1..MaxIdLen}

WatchPrefix == <<"h","t","t","p","s",":","/","/","w","w","w",".","r","e","d","g","i","f","s",".","c","o","m","/","w","a","t","c","h","/">>

\* URLs given to download()
DownloadURLs ==
    {<<"h","t","t","p","s",":","/","/","t","h","u","m","b","s","4","4",".","r","e","d","g","i","f","s",".","c","o","m","/","S","o","m","e","A","s","s","e","t","-","m","o","b","i","l","e",".","m","p","4">>,
     <<"h","t","t","p","s",":","/","/","t","h","u","m","b","s","4","4",".","r","e","d","g","i","f","s",".","c","o","m","/","w","a","t","c","h","/","a","b","c">>,
     <<"h","t","t","p","s",":","/","/","t","h","u","m","b","s",".","r","e","d","g","i","f","s",".","c","o","m","/","S","o","m","e","A","s","s","e","t",".","m","p","4">>,
     <<"h","t","t","p","s",":","/","/","e","x","a","m","p","l","e",".","c","o","m","/","u","n","r","e","l","a","t","e","d">>,
     <<"h","t","t","p","s",":","/","/","w","w","w",".","r","e","d","g","i","f","s",".","c","o","m","/","w","a","t","c","h","/","s","o","m","e","n","a","m","e">>,
     <<"h","t","t","p","s",":","/","/","w","w","w",".","r","e","d","g","i","f","s",".","c","o","m","/","u","s","e","r","s","/","w","a","t","c","h","e","r">>}
    \cup {WatchPrefix \o id : id \in Ids}

\* str values given as Route parameters
RouteStrings ==
    {<<"a","b","c","1","2","3">>, <<"a"," ","b">>, <<"{","i","d","}">>, <<"a","/","b">>, <<"5","0","%">>, <<"x","{","y","}","?","z","=","1">>}

\* identifiers given to get_gif
GifIds == {<<"a","b","c","1","2","3">>, <<"a"," ","b">>}

\* (path template, parameters) pairs given to Route
RouteInputs ==
    {[path |-> <<"/","v","1","/","t","a","g","s">>, parameters |-> <<>>]}
    \cup {[path |-> <<"/","v","2","/","g","i","f","s","/","{","i","d","}">>, parameters |-> <<"i","d">> :> v] :
            v \in {StrVal(t) : t \in RouteStrings} \cup {IntVal(<<"4","2">>)}}
    \cup {[path |-> <<"/","v","2","/","g","i","f","s","/","s","e","a","r","c","h","?","s","e","a","r","c","h","_","t","e","x","t","=","{","s","e","a","r","c","h","_","t","e","x","t","}","&","c","o","u","n","t","=","{","c","o","u","n","t","}">>,
           parameters |-> (<<"s","e","a","r","c","h","_","t","e","x","t">> :> StrVal(t)) @@ (<<"c","o","u","n","t">> :> c)] :
            t \in RouteStrings, c \in {IntVal(<<"2","0">>), StrVal(<<"{","c","o","u","n","t","}">>)}}
    \cup {[path |-> <<"/","v","1","/","c","r","e","a","t","o","r","s","/","s","e","a","r","c","h","?","p","a","g","e","=","{","p","a","g","e","}","&","v","e","r","i","f","i","e","d","=","{","v","e","r","i","f","i","e","d","}">>,
           parameters |-> (<<"p","a","g","e">> :> IntVal(<<"1">>)) @@ (<<"v","e","r","i","f","i","e","d">> :> IntVal(b))] :
            b \in {<<"T","r","u","e">>, <<"F","a","l","s","e">>}}
    \cup {[path |-> <<"/","v","2","/","g","i","f","s","/","{","i","d","}">>, parameters |-> <<"p","a","g","e">> :> IntVal(<<"1">>)]}

(***************************************************************************)
(* State.                                                                  *)
(***************************************************************************)
VARIABLES
    self,   \* the transport: its class and the attributes __init__ set
    sink,   \* the caller's open byte sink: [closed, data]
    file,   \* the file at the caller's path: [exists, open, data]
    op,     \* the last operation and its arguments
    calls,  \* the network calls the last operation made, in order
    io,     \* what the last operation did to its download target, in order
    out     \* how the last operation ended

vars == <<self, sink, file, op, calls, io, out>>

Op(name, path, parameters, route, url, fp) ==
    [name |-> name, path |-> path, parameters |-> parameters, route |-> route,
     url |-> url, fp |-> fp]

Init ==
    /\ self \in {HTTP_init(p, a) : p \in Proxies, a \in Auths}
                \cup {AsyncHttp_init(p, a) : p \in Proxies, a \in Auths}
    /\ sink = [closed |-> FALSE, data |-> <<>>]
    /\ file = [exists |-> TRUE, open |-> FALSE, data |-> <<"old", "old">>]
    /\ op = Op("none", <<>>, <<>>, NoRoute, <<>>, "")
    /\ calls = <<>>
    /\ io = <<>>
    /\ out = NoOutcome

\* Route(method, path, **parameters)
NewRoute ==
    \E method \in {"GET", "POST"}, in \in RouteInputs :
        /\ op' = Op("Route", in.path, in.parameters,
                    Route(method, in.path, in.parameters), <<>>, "")
        /\ calls' = <<>>
        /\ io' = <<>>
        /\ out' = NoOutcome
        /\ UNCHANGED <<self, sink, file>>

\* get_tags()
GetTags ==
    \E r \in Responses :
        \E res \in {get_tags(self, r)} :
            /\ op' = Op("get_tags", <<>>, <<>>, NoRoute, <<>>, "")
            /\ calls' = res.calls
            /\ io' = <<>>
            /\ out' = res.out
            /\ UNCHANGED <<self, sink, file>>

\* get_gif(id)
GetGif ==
    \E id \in GifIds :
      \E route \in {get_gif_route(id)} :
        \E r \in Responses :
          \E res \in {request(self, route, r)} :
            /\ op' = Op("get_gif", <<>>, <<"i","d">> :> StrVal(id), NoRoute, <<>>, "")
            /\ calls' = res.calls
            /\ io' = <<>>
            /\ out' = res.out
            /\ UNCHANGED <<self, sink, file>>

\* download(url, fp)
Download ==
    \E url \in DownloadURLs :
      \E resolved \in {download_resolve(url)} :
        \E fp \in {"sink", "path"}, r \in Responses, data \in Contents :
          \E res \in {download(self, resolved, fp, r, data, sink, file)} :
            /\ Len(res.sink.data) <= MaxSink
            /\ op' = Op("download", <<>>, <<>>, NoRoute, url, fp)
            /\ calls' = res.calls
            /\ io' = res.io
            /\ out' = res.out
            /\ sink' = res.sink
            /\ file' = res.file
            /\ UNCHANGED self

Next == GetTags \/ GetGif \/ Download

\* the transports: requests and downloads in any order
Spec == Init /\ [][Next]_vars

NextRoute == NewRoute

\* Route construction on its own
SpecRoute == Init /\ [][NextRoute]_vars

(***************************************************************************)
(* What a call means on the wire, by the documented meaning of the keyword *)
(* arguments of the two HTTP libraries.                                    *)
(***************************************************************************)
\* the scheme names of the model as TLA+ strings
ToSchemeName(chars) ==
    IF chars = <<"h","t","t","p","s">> THEN "https" ELSE IF chars = <<"h","t","t","p">> THEN "http" ELSE ""

\* requests routes a URL through proxies[scheme of the URL]; aiohttp routes
\* every request that is given proxy=
RoutedViaProxy(c) ==
    IF c.api = "requests"
    THEN c.proxies.set /\ c.proxies.scheme = ToSchemeName(URLScheme(c.url))
    ELSE c.proxy.set

\* the credentials sent to the origin server: auth= of requests is HTTP
\* Basic authentication of the request itself
OriginAuth(c) == IF c.api = "requests" THEN c.auth ELSE NoAuth

\* the credentials sent to the proxy only: proxy_auth= of aiohttp
ProxyHopAuth(c) == IF c.api = "aiohttp" THEN c.proxy_auth ELSE NoAuth

\* the last operation made a request() call first
RequestMade == calls # <<>> /\ calls[1].fn = "request"

C2_ProxyAuthOnlyToProxy ==
    (self.proxy.set /\ self.proxy_auth.set) =>
        \A i \in 1..Len(calls) :
            /\ OriginAuth(calls[i]) = NoAuth
            /\ calls[i].fn = "request" => ProxyHopAuth(calls[i]) = self.proxy_auth

(***************************************************************************)
(* C3.  Proxy routing.                                                     *)
(***************************************************************************)
\* C3: on a transport built with a proxy, every network call of every
\* operation (request() and the raw fetch of download()) goes through the
\* proxy.
C3_EveryCallViaProxy ==
    self.proxy.set => \A i \in 1..Len(calls) : RoutedViaProxy(calls[i])

(***************************************************************************)
(* C4, C5, C8.  Classification of the URL given to download().             *)
(***************************************************************************)
\* the host carries both markers of a direct-asset URL
ThumbsHost(url) ==
    Contains(URLHost(url), <<"t","h","u","m","b","s">>) /\ Contains(URLHost(url), <<"r","e","d","g","i","f","s">>)

\* the path segments: the pieces of path between "/" characters
RECURSIVE Segments(_)
Segments(path) ==
    IF path = <<>> THEN {}
    ELSE LET n == UntilLen(path, {"/"})
         IN  (IF n > 0 THEN {Take(path, n)} ELSE {}) \cup Segments(Drop(path, n + 1))

\* C4: download() of a URL that has neither a thumbs/redgifs host nor
\* 'watch' in its path raises the invalid-URL error, makes no network call
\* and does not touch the target.
C4_UnrecognizedRaises ==
    (/\ op.name = "download"
     /\ ~ThumbsHost(op.url)
     /\ ~Contains(URLPath(op.url), <<"w","a","t","c","h">>)) =>
        /\ out.kind = "raised"
        /\ out.exc = "TypeError: invalid RedGifs URL"
        /\ calls = <<>>
        /\ io = <<>>

\* C5: download() of a URL whose host has both markers but which fails the
\* asset grammar raises the invalid-URL error with no network call made and
\* the target neither opened nor written, also when its path contains
\* 'watch'.
C5_BadAssetPathRaises ==
    (/\ op.name = "download"
     /\ ThumbsHost(op.url)
     /\ ~REDGIFS_THUMBS_RE_match(op.url)) =>
        /\ out.kind = "raised"
        /\ out.exc = "TypeError: invalid RedGifs URL"
        /\ calls = <<>>
        /\ io = <<>>

\* the blocking transport was given a thumbs URL with 'watch' in its path
\* that fails the asset grammar, and raised
C5_Witness ==
    /\ op.name = "download"
    /\ self.cls = "HTTP"
    /\ op.url = <<"h","t","t","p","s",":","/","/","t","h","u","m","b","s","4","4",".","r","e","d","g","i","f","s",".","c","o","m","/","w","a","t","c","h","/","a","b","c">>
    /\ out.exc = "TypeError: invalid RedGifs URL"

\* C8: download() makes a metadata lookup only for a URL whose path has a
\* segment that is exactly 'watch'; a URL of the direct-asset grammar makes
\* none.
C8_LookupOnlyForWatchSegment ==
    (op.name = "download" /\ \E i \in 1..Len(calls) : calls[i].fn = "request") =>
        /\ <<"w","a","t","c","h">> \in Segments(URLPath(op.url))
        /\ ~(ThumbsHost(op.url) /\ REDGIFS_THUMBS_RE_match(op.url))

(***************************************************************************)
(* C6, C10.  The watch-page branch of download().                          *)
(***************************************************************************)
SomeNameURL == <<"h","t","t","p","s",":","/","/","w","w","w",".","r","e","d","g","i","f","s",".","c","o","m","/","w","a","t","c","h","/","s","o","m","e","n","a","m","e">>

\* the call request() makes for GET /v2/gifs/<id>
IsLookupOf(c, id) ==
    /\ c.fn = "request"
    /\ c.method = "GET"
    /\ c.url = BASE \o <<"/","v","2","/","g","i","f","s","/">> \o id

\* C6: on either transport, download() of .../watch/somename first makes the
\* lookup GET /v2/gifs/somename through request(); when that answers 200
\* with a gif document, it then makes exactly one raw fetch of gif.urls.hd,
\* writes the fetched bytes to the target and returns their number.
C6_WatchLookupThenFetch ==
    (op.name = "download" /\ op.url = SomeNameURL) =>
        /\ calls # <<>>
        /\ IsLookupOf(calls[1], <<"s","o","m","e","n","a","m","e">>)
        /\ (calls[1].resp.status = HTTP_OK /\ calls[1].resp.parsed
                /\ calls[1].resp.js.hasgif) =>
              /\ Len(calls) = 2
              /\ calls[2].fn = "get"
              /\ calls[2].url = calls[1].resp.js.hd
              /\ io # <<>>
              /\ out.kind = "returned"
              /\ out.n = Len(calls[2].resp.content)

\* C10: for a URL .../watch/<id>, the lookup download() makes is
\* GET /v2/gifs/<id> with <id> the trailing path segment, unchanged.
C10_LookupIdIsTrailingSegment ==
    (op.name = "download" /\ StartsWith(op.url, WatchPrefix) /\ RequestMade) =>
        IsLookupOf(calls[1], Drop(op.url, Len(WatchPrefix)))

(***************************************************************************)
(* C7.  Route.                                                             *)
(***************************************************************************)
\* s with every occurrence of old replaced by new, left to right
RECURSIVE ReplaceAll(_, _, _)
ReplaceAll(s, old, new) ==
    IF Find(s, old) < 0 THEN s
    ELSE Take(s, Find(s, old)) \o new
         \o ReplaceAll(Drop(s, Find(s, old) + Len(old)), old, new)

\* s with the placeholder {k} of every name k replaced by texts[k], one
\* name after the other
RECURSIVE ReplaceFields(_, _, _)
ReplaceFields(s, names, texts) ==
    IF names = {} THEN s
    ELSE LET k == CHOOSE n \in names : TRUE
         IN  ReplaceFields(ReplaceAll(s, <<"{">> \o k \o <<"}">>, texts[k]),
                           names \ {k}, texts)

\* the text a percent-encoded string stands for
RECURSIVE Unquote(_)
Unquote(e) ==
    IF e = <<>> THEN <<>>
    ELSE IF Head(e) = "%"
         THEN <<CHOOSE c \in DOMAIN PctEscape : PctEscape[c] = Take(e, 3)>>
              \o Unquote(Drop(e, 3))
         ELSE <<Head(e)>> \o Unquote(Tail(e))

\* e is a percent-encoding of t: it decodes to t and has no reserved
\* character left in it
IsPercentEncodingOf(e, t) ==
    /\ CharsOf(e) \subseteq AlwaysSafe \cup {"/", "%"}
    /\ \A i \in 1..Len(e) :
          e[i] = "%" => \E c \in DOMAIN PctEscape : PctEscape[c] = SubSeq(e, i, i + 2)
    /\ Unquote(e) = t

\* the text substituted for a parameter
SubstitutedText(v) == IF v.isstr THEN quote(v.text) ELSE v.text

\* C7: when the parameter names are exactly the placeholders of the path
\* template, Route.url is BASE followed by the template with each {name}
\* replaced by the parameter's text (a percent-encoding of it for a str, the
\* text itself otherwise), and has no '{' or '}' in it.
C7_RouteUrl ==
    (/\ op.name = "Route"
     /\ FieldNames(op.path) = DOMAIN op.parameters) =>
        /\ op.route.exc = "None"
        /\ op.route.url =
              BASE \o ReplaceFields(op.path, DOMAIN op.parameters,
                                    [k \in DOMAIN op.parameters |->
                                        SubstitutedText(op.parameters[k])])
        /\ \A k \in DOMAIN op.parameters :
              op.parameters[k].isstr =>
                  IsPercentEncodingOf(SubstitutedText(op.parameters[k]),
                                      op.parameters[k].text)
        /\ CharsOf(op.route.url) \cap {"{", "}"} = {}

\* Route('GET', '/v2/gifs/{id}', id='a b') gave .../v2/gifs/a%20b
C7_Witness ==
    /\ op.name = "Route"
    /\ op.path = <<"/","v","2","/","g","i","f","s","/","{","i","d","}">>
    /\ op.parameters = (<<"i","d">> :> StrVal(<<"a"," ","b">>))
    /\ op.route.url = <<"h","t","t","p","s",":","/","/","a","p","i",".","r","e","d","g","i","f","s",".","c","o","m","/","v","2","/","g","i","f","s","/","a","%","2","0","b">>

(***************************************************************************)
(* C9.  The download target.                                               *)
(***************************************************************************)
\* C9: the caller's sink is never closed and the only thing done to it is
\* a write; a download to a path opens the file in 'wb' mode, writes and
\* closes it, so that afterwards the file is closed and holds exactly the
\* fetched bytes.
C9_TargetHandling ==
    /\ ~sink.closed
    /\ \A i \in 1..Len(io) : io[i].target = "sink" => io[i].ev = "write"
    /\ (op.name = "download" /\ op.fp = "sink" /\ io # <<>>) =>
          io = << IOEvent("write", "sink", "") >>
    /\ (op.name = "download" /\ op.fp = "path" /\ io # <<>>) =>
          /\ io = << IOEvent("open", "path", "wb"), IOEvent("write", "path", ""),
                     IOEvent("close", "path", "") >>
          /\ ~file.open
          /\ file.data = calls[Len(calls)].resp.content

\* bytes were written to the sink by an earlier download and it is still
\* open; the last download wrote one byte over the old file at the path
C9_Witness ==
    /\ op.name = "download"
    /\ op.fp = "path"
    /\ io # <<>>
    /\ file.data = <<"b1">>
    /\ sink.data = <<"b1">>
    /\ ~sink.closed
====
